---- MODULE Spec2Model ----
(***************************************************************************)
(* A model of lru-cache-rs: the Rc/Weak doubly-linked List of src/node.rs  *)
(* and the LRU cache of src/lru.rs built on it.                            *)
(*                                                                         *)
(* Memory is modelled explicitly.  A heap cell is one Rc<RefCell<Node<T>>> *)
(* allocation; a strong reference (Rc) and a non-owning reference (Weak)   *)
(* are both the cell's id, and Null is Option::None.  A cell is allocated  *)
(* as long as at least one strong reference to it exists; Weak::upgrade    *)
(* succeeds exactly on allocated cells.                                    *)
(***************************************************************************)
EXTENDS Integers, Sequences, FiniteSets, TLC

VARIABLES st, st2, ref, last, hist

vars == <<st, st2, ref, last, hist>>

----------------------------------------------------------------------------
(* Bounds of the model *)

MaxKey == 4
MaxCap == 3
MaxLen == 4
PairFresh == 11
PairHot == 1
MaxCount == 6
LinkKeys == 3
LinkCap == 3
HeldKeys == 3
HeldCap == 2

Keys == 1..MaxKey

(* The program only copies values (T: Copy) and never inspects them, so    *)
(* two values are enough to tell a value from the one it replaced.         *)
Values == {1, 2}

(* Program constants *)

Null == 0
DefaultCapacity == 10

----------------------------------------------------------------------------
(* Memory: Node, Rc, Weak *)

FreeCell == [alloc |-> FALSE, value |-> Null, next |-> Null, prev |-> Null]

Node_new(value) == [alloc |-> TRUE, value |-> value, next |-> Null, prev |-> Null]

NoIter == [current |-> Null, current_back |-> Null]

Ids(s) == DOMAIN s.heap

Allocated(s) == {n \in Ids(s) : s.heap[n].alloc}

(* Rc::strong_count: the owning references to cell n that the state holds: *)
(* the list's head and tail, the iterator's two cursors, and the next link *)
(* of every allocated node.                                                *)
StrongCount(s, n) ==
    (IF s.head = n THEN 1 ELSE 0)
  + (IF s.tail = n THEN 1 ELSE 0)
  + (IF s.iter.current = n THEN 1 ELSE 0)
  + (IF s.iter.current_back = n THEN 1 ELSE 0)
  + Cardinality({m \in Allocated(s) : s.heap[m].next = n})

(* The cells that have an owner: StrongCount(s, n) > 0. *)
Owned(s) ==
    {s.head, s.tail, s.iter.current, s.iter.current_back}
        \cup {s.heap[m].next : m \in Allocated(s)}

(* Rc's drop glue, run when the locals of a call go out of scope: a cell   *)
(* with no owner left is freed, which drops its own next link in turn.     *)
RECURSIVE Release(_)
Release(s) ==
    LET dead == Allocated(s) \ Owned(s)
    IN  IF dead = {} THEN s
        ELSE Release([s EXCEPT !.heap =
                 [n \in Ids(s) |-> IF n \in dead THEN FreeCell ELSE s.heap[n]]])

(* Weak::upgrade *)
Upgrade(s, w) == IF w # Null /\ s.heap[w].alloc THEN w ELSE Null

(* The cells some Weak still points at: their allocation is not reused.    *)
WeakTargets(s) ==
    {s.map[k] : k \in DOMAIN s.map} \cup {s.heap[m].prev : m \in Allocated(s)}

Reusable(s) == {n \in Ids(s) : ~s.heap[n].alloc /\ n \notin WeakTargets(s)}

HasFree(s) == Reusable(s) # {}

(* Rc::new: the allocator's choice of cell *)
NewCell(s) == CHOOSE n \in Reusable(s) : \A m \in Reusable(s) : n <= m

(* Addresses are not observable: no operation compares or orders cells.    *)
(* States are therefore kept up to a renaming of the cells.  Settle frees  *)
(* what the finished call no longer owns and renames the cells that are    *)
(* still in use: first the nodes of the list from head along next, then    *)
(* every other cell that is allocated or the target of a Weak, those an    *)
(* index entry points at in key order first.                               *)
RECURSIVE Chain(_, _, _)
Chain(s, n, fuel) ==
    IF n = Null \/ fuel = 0 THEN << >>
    ELSE <<n>> \o Chain(s, s.heap[n].next, fuel - 1)

SortKey(s, n) ==
    LET ks == {k \in DOMAIN s.map : s.map[k] = n}
    IN  IF ks # {} THEN CHOOSE k \in ks : \A j \in ks : k <= j
        ELSE Len(s.map) + n

RECURSIVE Sorted(_, _)
Sorted(s, set) ==
    IF set = {} THEN << >>
    ELSE LET n == CHOOSE x \in set : \A y \in set : SortKey(s, x) <= SortKey(s, y)
         IN  <<n>> \o Sorted(s, set \ {n})

InUse(s) ==
    (Allocated(s) \cup WeakTargets(s) \cup {s.iter.current, s.iter.current_back}) \ {Null}

Renamed(s, order) ==
    LET to == [n \in {Null} \cup Ids(s) |->
                 IF \E i \in 1..Len(order) : order[i] = n
                 THEN CHOOSE i \in 1..Len(order) : order[i] = n
                 ELSE Null]
    IN  [s EXCEPT !.heap = [i \in Ids(s) |->
                     IF i <= Len(order) /\ s.heap[order[i]].alloc
                     THEN [s.heap[order[i]] EXCEPT !.next = to[@], !.prev = to[@]]
                     ELSE FreeCell],
                  !.head = to[@], !.tail = to[@],
                  !.map = [k \in DOMAIN s.map |-> to[s.map[k]]],
                  !.iter = [current |-> to[s.iter.current],
                            current_back |-> to[s.iter.current_back]]]

Canon(s) ==
    LET chain == Chain(s, s.head, Cardinality(Allocated(s)))
        order == chain \o Sorted(s, InUse(s) \ {chain[i] : i \in 1..Len(chain)})
    IN  IF \A i \in 1..Len(order) : order[i] = i THEN s ELSE Renamed(s, order)

Settle(s) == Canon(Release(s))

----------------------------------------------------------------------------
(* List<T> *)

(* A List over a memory of nCells cells.  The record also carries the two  *)
(* other fields of the LRU that owns the list (empty for a bare list) and  *)
(* the one ListIterator a caller may hold.                                 *)
List_new(nCells) ==
    [heap |-> [n \in 1..nCells |-> FreeCell],
     head |-> Null, tail |-> Null, count |-> 0,
     map |-> << >>,
     capacity |-> 0,
     iter |-> NoIter]

(* push_front without the old head's prev link *)
push_front_no_prev(s, value) ==
    LET n == NewCell(s)
    IN  IF s.head = Null
        THEN [s EXCEPT !.heap[n] = Node_new(value),
                       !.head = n, !.tail = n,
                       !.count = @ + 1]
        ELSE [s EXCEPT !.heap[n] = [Node_new(value) EXCEPT !.next = s.head],
                       !.head = n,
                       !.count = @ + 1]

push_front(s, value) ==
    LET n == NewCell(s)
    IN  IF s.head = Null
        THEN [s EXCEPT !.heap[n] = Node_new(value),
                       !.head = n, !.tail = n,
                       !.count = @ + 1]
        ELSE LET current_head == s.head
             IN  [s EXCEPT !.heap = [@ EXCEPT ![n] = [Node_new(value) EXCEPT !.next = current_head],
                                              ![current_head].prev = n],
                           !.head = n,
                           !.count = @ + 1]

push_back(s, value) ==
    LET n == NewCell(s)
    IN  IF s.tail = Null
        THEN [s EXCEPT !.heap[n] = Node_new(value),
                       !.head = n, !.tail = n,
                       !.count = @ + 1]
        ELSE LET current_tail == s.tail
             IN  [s EXCEPT !.heap = [@ EXCEPT ![n] = [Node_new(value) EXCEPT !.prev = current_tail],
                                              ![current_tail].next = n],
                           !.tail = n,
                           !.count = @ + 1]

(* pop_back leaving head set when it takes the only node *)
pop_back_keeps_head(s) ==
    IF s.tail = Null
    THEN [s |-> s, ret |-> Null]
    ELSE LET tail == s.tail
             prev == s.heap[tail].prev
             s1 == [s EXCEPT !.tail = Null, !.heap[tail].prev = Null]
             s2 == IF prev = Null
                   THEN s1
                   ELSE LET p == Upgrade(s1, prev)
                        IN  IF p # Null
                            THEN [s1 EXCEPT !.heap[p].next = Null, !.tail = p]
                            ELSE s1
         IN  [s |-> [s2 EXCEPT !.count = @ - 1], ret |-> s.heap[tail].value]

pop_back(s) ==
    IF s.tail = Null
    THEN [s |-> s, ret |-> Null]
    ELSE LET tail == s.tail
             prev == s.heap[tail].prev
             s1 == [s EXCEPT !.tail = Null, !.heap[tail].prev = Null]
             s2 == IF prev = Null
                   THEN [s1 EXCEPT !.head = Null]
                   ELSE LET p == Upgrade(s1, prev)
                        IN  IF p # Null
                            THEN [s1 EXCEPT !.heap[p].next = Null, !.tail = p]
                            ELSE s1
         IN  [s |-> [s2 EXCEPT !.count = @ - 1], ret |-> s.heap[tail].value]

(* pop_front leaving tail set when it takes the only node *)
pop_front_keeps_tail(s) ==
    IF s.head = Null
    THEN [s |-> s, ret |-> Null]
    ELSE LET head == s.head
             next == s.heap[head].next
             s1 == [s EXCEPT !.head = Null, !.heap[head].next = Null]
             s2 == IF next = Null
                   THEN s1
                   ELSE [s1 EXCEPT !.heap[next].prev = Null, !.head = next]
         IN  [s |-> [s2 EXCEPT !.count = @ - 1], ret |-> s.heap[head].value]

(* pop_front without its count decrement *)
pop_front_keeps_count(s) ==
    IF s.head = Null
    THEN [s |-> s, ret |-> Null]
    ELSE LET head == s.head
             next == s.heap[head].next
             s1 == [s EXCEPT !.head = Null, !.heap[head].next = Null]
             s2 == IF next = Null
                   THEN [s1 EXCEPT !.tail = Null]
                   ELSE [s1 EXCEPT !.heap[next].prev = Null, !.head = next]
         IN  [s |-> s2, ret |-> s.heap[head].value]

pop_front(s) ==
    IF s.head = Null
    THEN [s |-> s, ret |-> Null]
    ELSE LET head == s.head
             next == s.heap[head].next
             s1 == [s EXCEPT !.head = Null, !.heap[head].next = Null]
             s2 == IF next = Null
                   THEN [s1 EXCEPT !.tail = Null]
                   ELSE [s1 EXCEPT !.heap[next].prev = Null, !.head = next]
         IN  [s |-> [s2 EXCEPT !.count = @ - 1], ret |-> s.heap[head].value]

(* iter() starting both cursors at the head *)
iter_both_at_head(s) == [current |-> s.head, current_back |-> s.head]

iter(s) == [current |-> s.head, current_back |-> s.tail]

(* remove_node leaving the removed node's own next and prev as they were *)
remove_node_keeps_links(s, node) ==
    LET prev == Upgrade(s, s.heap[node].prev)
        next == s.heap[node].next
    IN  IF prev = Null /\ next = Null
        THEN [s EXCEPT !.head = Null, !.tail = Null]
        ELSE IF prev = Null
        THEN [s EXCEPT !.heap[next].prev = Null, !.head = next]
        ELSE IF next = Null
        THEN [s EXCEPT !.heap[prev].next = Null, !.tail = prev]
        ELSE [s EXCEPT !.heap = [@ EXCEPT ![next].prev = prev, ![prev].next = next]]

(* remove_node leaving the successor's prev alone when the node is inside *)
remove_node_keeps_prev(s, node) ==
    LET prev == Upgrade(s, s.heap[node].prev)
        next == s.heap[node].next
        s1 == [s EXCEPT !.heap[node] = [@ EXCEPT !.prev = Null, !.next = Null]]
    IN  IF prev = Null /\ next = Null
        THEN [s1 EXCEPT !.head = Null, !.tail = Null]
        ELSE IF prev = Null
        THEN [s1 EXCEPT !.heap[next].prev = Null, !.head = next]
        ELSE IF next = Null
        THEN [s1 EXCEPT !.heap[prev].next = Null, !.tail = prev]
        ELSE [s1 EXCEPT !.heap[prev].next = next]

remove_node(s, node) ==
    LET prev == Upgrade(s, s.heap[node].prev)
        next == s.heap[node].next
        s1 == [s EXCEPT !.heap[node] = [@ EXCEPT !.prev = Null, !.next = Null]]
    IN  IF prev = Null /\ next = Null
        THEN [s1 EXCEPT !.head = Null, !.tail = Null]
        ELSE IF prev = Null
        THEN [s1 EXCEPT !.heap[next].prev = Null, !.head = next]
        ELSE IF next = Null
        THEN [s1 EXCEPT !.heap[prev].next = Null, !.tail = prev]
        ELSE [s1 EXCEPT !.heap = [@ EXCEPT ![next].prev = prev, ![prev].next = next]]

(* push_node_back without the node's prev link *)
push_node_back_no_prev(s, node) ==
    IF s.tail = Null
    THEN [s EXCEPT !.head = node, !.tail = node]
    ELSE LET current_tail == s.tail
         IN  [s EXCEPT !.heap[current_tail].next = node,
                       !.tail = node]

push_node_back(s, node) ==
    IF s.tail = Null
    THEN [s EXCEPT !.head = node, !.tail = node]
    ELSE LET current_tail == s.tail
         IN  [s EXCEPT !.heap = [@ EXCEPT ![node].prev = current_tail,
                                          ![current_tail].next = node],
                       !.tail = node]

(* move_node_to_back without the remove_node call *)
move_node_to_back_no_remove(s, node) == push_node_back(s, node)

move_node_to_back(s, node) == push_node_back(remove_node(s, node), node)

get_weak_tail(s) == s.tail

len(s) == s.count

----------------------------------------------------------------------------
(* ListIterator<T> *)

iter_next(s) ==
    LET current == s.iter.current
    IN  IF current = Null
        THEN [s |-> s, ret |-> Null, node |-> Null]
        ELSE [s |-> [s EXCEPT !.iter.current = s.heap[current].next],
              ret |-> s.heap[current].value, node |-> current]

(* next_back without the step to the previous node *)
iter_next_back_no_step(s) ==
    LET current == s.iter.current_back
    IN  IF current = Null
        THEN [s |-> s, ret |-> Null, node |-> Null]
        ELSE [s |-> [s EXCEPT !.iter.current_back = Null],
              ret |-> s.heap[current].value, node |-> current]

iter_next_back(s) ==
    LET current == s.iter.current_back
    IN  IF current = Null
        THEN [s |-> s, ret |-> Null, node |-> Null]
        ELSE [s |-> [s EXCEPT !.iter.current_back =
                         IF s.heap[current].prev = Null THEN Null
                         ELSE Upgrade(s, s.heap[current].prev)],
              ret |-> s.heap[current].value, node |-> current]

----------------------------------------------------------------------------
(* LRU<K, T> *)

(* with_capacity clamping the capacity to at least 1 *)
with_capacity_at_least_one(nCells, nKeys, capacity) ==
    [List_new(nCells) EXCEPT !.map = [k \in 1..nKeys |-> Null],
                             !.capacity = IF capacity = 0 THEN 1 ELSE capacity]

with_capacity(nCells, nKeys, capacity) ==
    [List_new(nCells) EXCEPT !.map = [k \in 1..nKeys |-> Null],
                             !.capacity = capacity]

(* new() with another default capacity *)
new_capacity_16(nCells, nKeys) == with_capacity(nCells, nKeys, 16)

new(nCells, nKeys) == with_capacity(nCells, nKeys, DefaultCapacity)

(* get returning the value without refreshing the node's recency *)
get_no_refresh(s, k) ==
    LET node == Upgrade(s, s.map[k])
    IN  IF node = Null
        THEN [s |-> s, ret |-> Null]
        ELSE [s |-> s, ret |-> s.heap[node].value]

(* get removing an index entry that no longer resolves *)
get_drops_stale(s, k) ==
    LET node == Upgrade(s, s.map[k])
    IN  IF node = Null
        THEN [s |-> [s EXCEPT !.map[k] = Null], ret |-> Null]
        ELSE [s |-> move_node_to_back(s, node),
              ret |-> s.heap[node].value]

get(s, k) ==
    LET ptr == s.map[k]
    IN  IF ptr = Null
        THEN [s |-> s, ret |-> Null]
        ELSE LET node == Upgrade(s, ptr)
             IN  IF node = Null
                 THEN [s |-> s, ret |-> Null]
                 ELSE [s |-> move_node_to_back(s, node),
                       ret |-> s.heap[node].value]

(* Whether put takes its None arm, which allocates a node. *)
PutAllocates(s, k) == Upgrade(s, s.map[k]) = Null

(* put evicting from the back (the node just pushed) instead of the front *)
put_evicts_back(s, k, v) ==
    LET ptr == Upgrade(s, s.map[k])
    IN  IF ptr = Null
        THEN LET s1 == push_back(s, v)
                 tail == get_weak_tail(s1)
                 s2 == IF tail # Null THEN [s1 EXCEPT !.map[k] = tail] ELSE s1
             IN  IF len(s2) > s2.capacity THEN pop_back(s2).s ELSE s2
        ELSE move_node_to_back([s EXCEPT !.heap[ptr].value = v], ptr)

(* put refreshing a live node without overwriting its value *)
put_keeps_value(s, k, v) ==
    LET ptr == Upgrade(s, s.map[k])
    IN  IF ptr = Null
        THEN LET s1 == push_back(s, v)
                 tail == get_weak_tail(s1)
                 s2 == IF tail # Null THEN [s1 EXCEPT !.map[k] = tail] ELSE s1
             IN  IF len(s2) > s2.capacity THEN pop_front(s2).s ELSE s2
        ELSE move_node_to_back(s, ptr)

(* put that does not enter a new node into the index *)
put_no_index(s, k, v) ==
    LET ptr == Upgrade(s, s.map[k])
    IN  IF ptr = Null
        THEN LET s1 == push_back(s, v)
             IN  IF len(s1) > s1.capacity THEN pop_front(s1).s ELSE s1
        ELSE move_node_to_back([s EXCEPT !.heap[ptr].value = v], ptr)

(* put that takes the entries of the node it evicts out of the index *)
put_unindexes_evicted(s, k, v) ==
    LET ptr == Upgrade(s, s.map[k])
    IN  IF ptr = Null
        THEN LET s1 == push_back(s, v)
                 tail == get_weak_tail(s1)
                 s2 == IF tail # Null THEN [s1 EXCEPT !.map[k] = tail] ELSE s1
             IN  IF len(s2) > s2.capacity
                 THEN [pop_front(s2).s EXCEPT
                          !.map = [j \in DOMAIN @ |-> IF @[j] = s2.head THEN Null ELSE @[j]]]
                 ELSE s2
        ELSE move_node_to_back([s EXCEPT !.heap[ptr].value = v], ptr)

put(s, k, v) ==
    LET ptr == Upgrade(s, s.map[k])
    IN  IF ptr = Null
        THEN LET s1 == push_back(s, v)
                 tail == get_weak_tail(s1)
                 s2 == IF tail # Null THEN [s1 EXCEPT !.map[k] = tail] ELSE s1
             IN  IF len(s2) > s2.capacity THEN pop_front(s2).s ELSE s2
        ELSE move_node_to_back([s EXCEPT !.heap[ptr].value = v], ptr)

----------------------------------------------------------------------------
(* The reference LRU map: the entries <<key, value>> from least to most    *)
(* recently used, at most cap of them.                                     *)

RefIndex(items, k) ==
    IF \E i \in 1..Len(items) : items[i][1] = k
    THEN CHOOSE i \in 1..Len(items) : items[i][1] = k
    ELSE 0

RefWithout(items, i) == SubSeq(items, 1, i - 1) \o SubSeq(items, i + 1, Len(items))

RefGet(r, k) ==
    LET i == RefIndex(r.items, k)
    IN  IF i = 0
        THEN [r |-> r, ret |-> Null]
        ELSE [r |-> [r EXCEPT !.items = Append(RefWithout(@, i), r.items[i])],
              ret |-> r.items[i][2]]

RefPut(r, k, v) ==
    LET i == RefIndex(r.items, k)
        kept == IF i = 0 THEN r.items ELSE RefWithout(r.items, i)
        all == Append(kept, <<k, v>>)
        over == IF Len(all) > r.cap THEN Len(all) - r.cap ELSE 0
    IN  [r EXCEPT !.items = SubSeq(all, over + 1, Len(all))]

----------------------------------------------------------------------------
(* Observation of a state: what a caller can see through the public API *)

RECURSIVE WalkFront(_, _)
WalkFront(s, fuel) ==
    LET r == iter_next(s)
    IN  IF fuel = 0 \/ r.node = Null THEN << >>
        ELSE <<r.node>> \o WalkFront(r.s, fuel - 1)

RECURSIVE WalkBack(_, _)
WalkBack(s, fuel) ==
    LET r == iter_next_back(s)
    IN  IF fuel = 0 \/ r.node = Null THEN << >>
        ELSE <<r.node>> \o WalkBack(r.s, fuel - 1)

(* The nodes a fresh iter() yields with next() alone, front to back. *)
FwdNodes(s) == WalkFront([s EXCEPT !.iter = iter(s)], Cardinality(Ids(s)) + 1)

(* The nodes a fresh iter() yields with next_back() alone, back to front. *)
BackNodes(s) == WalkBack([s EXCEPT !.iter = iter(s)], Cardinality(Ids(s)) + 1)

ValuesOf(s, nodes) == [i \in 1..Len(nodes) |-> s.heap[nodes[i]].value]

Range(f) == {f[i] : i \in DOMAIN f}

Reverse(q) == [i \in 1..Len(q) |-> q[Len(q) + 1 - i]]

(* The keys on which get would hit. *)
HitKeys(s) == {k \in DOMAIN s.map : get(s, k).ret # Null}

(* The index entries whose node has been freed. *)
Tombstones(s) == {k \in DOMAIN s.map : s.map[k] # Null /\ Upgrade(s, s.map[k]) = Null}

----------------------------------------------------------------------------
(* The cache driven by put and get, no iterator held *)

(* The last call: its arguments, its result and the reference's result,    *)
(* and what a test harness would note down about it: hit, whether the key  *)
(* resolved to a live node; len0, len() before the call; scen, how far the *)
(* calls so far end with the overwrite scenario put(1, 1); put(1, 2);      *)
(* get(1): 1, 2 or 3 calls of it, or 0.                                    *)
NoCall == [op |-> "init", k |-> 0, v |-> 0, out |-> Null, refout |-> Null,
           hit |-> FALSE, len0 |-> 0, scen |-> 0]

(* What a caller of a ListIterator has seen: on, whether iter() was called; *)
(* fwd and bwd, the nodes next() and next_back() returned so far; fnone    *)
(* and bnone, whether next() and next_back() have returned none; turn, the *)
(* direction the next call must take for the calls to alternate starting   *)
(* with next() ("x": the calls so far did not alternate).                  *)
NoHist == [on |-> FALSE, fwd |-> << >>, bwd |-> << >>,
           fnone |-> FALSE, bnone |-> FALSE, turn |-> "f"]

Idle == List_new(0)

Init ==
    /\ \E c \in 0..MaxCap :
          /\ st = with_capacity(MaxKey + 1, MaxKey, c)
          /\ ref = [cap |-> c, items |-> << >>]
    /\ st2 = Idle
    /\ last = NoCall
    /\ hist = NoHist

Put(k, v) ==
    /\ PutAllocates(st, k) => HasFree(st)
    /\ st' = Settle(put(st, k, v))
    /\ ref' = RefPut(ref, k, v)
    /\ last' = [op |-> "put", k |-> k, v |-> v, out |-> Null, refout |-> Null,
                hit |-> ~PutAllocates(st, k), len0 |-> len(st),
                scen |-> IF k = 1 /\ v = 1 THEN 1
                         ELSE IF k = 1 /\ v = 2 /\ last.scen = 1 THEN 2 ELSE 0]
    /\ UNCHANGED <<st2, hist>>

Get(k) ==
    LET r == get(st, k)
        q == RefGet(ref, k)
    IN  /\ st' = Settle(r.s)
        /\ ref' = q.r
        /\ last' = [op |-> "get", k |-> k, v |-> 0,
                    out |-> r.ret, refout |-> q.ret,
                    hit |-> r.ret # Null, len0 |-> len(st),
                    scen |-> IF k = 1 /\ last.scen = 2 THEN 3 ELSE 0]
        /\ UNCHANGED <<st2, hist>>

Next ==
    \/ \E k \in Keys, v \in Values : Put(k, v)
    \/ \E k \in Keys : Get(k)

Spec == Init /\ [][Next]_vars

----------------------------------------------------------------------------
(* Two caches, one from new() and one from with_capacity(10), driven by    *)
(* the same calls.  The keys are put for the first time in the order 1, 2, *)
(* ...; only the keys up to PairHot are put again or read after that, and  *)
(* only they take more than one value.                                     *)

(* The keys put so far are 1..PairSeen. *)
PairSeen == Cardinality({k \in DOMAIN st.map : st.map[k] # Null})

PairPutKeys == {k \in 1..PairFresh : k <= PairHot \/ k = PairSeen + 1}

PairGetKeys == {k \in 1..PairFresh : k <= PairHot \/ k = PairSeen \/ k = PairSeen + 1}

PairValues(k) == IF k <= PairHot THEN Values ELSE {1}

PairInit ==
    /\ st = new(PairFresh + 1, PairFresh)
    /\ st2 = with_capacity(PairFresh + 1, PairFresh, 10)
    /\ ref = [cap |-> 0, items |-> << >>]
    /\ last = NoCall
    /\ hist = NoHist

PairPut(k, v) ==
    /\ PutAllocates(st, k) => HasFree(st)
    /\ PutAllocates(st2, k) => HasFree(st2)
    /\ st' = Settle(put(st, k, v))
    /\ st2' = Settle(put(st2, k, v))
    /\ last' = [NoCall EXCEPT !.op = "put", !.k = k, !.v = v]
    /\ UNCHANGED <<ref, hist>>

PairGet(k) ==
    LET r == get(st, k)
        r2 == get(st2, k)
    IN  /\ st' = Settle(r.s)
        /\ st2' = Settle(r2.s)
        /\ last' = [NoCall EXCEPT !.op = "get", !.k = k,
                                  !.out = r.ret, !.refout = r2.ret]
        /\ UNCHANGED <<ref, hist>>

PairNext ==
    \/ \E k \in PairPutKeys : \E v \in PairValues(k) : PairPut(k, v)
    \/ \E k \in PairGetKeys : PairGet(k)

SpecPair == PairInit /\ [][PairNext]_vars

----------------------------------------------------------------------------
(* A bare List driven at both ends, beside a reference double-ended queue  *)
(* (ref.items: the values front to back).                                  *)

DequeInit ==
    /\ st = List_new(MaxLen)
    /\ st2 = Idle
    /\ ref = [cap |-> MaxLen, items |-> << >>]
    /\ last = NoCall
    /\ hist = NoHist

PushFront(v) ==
    /\ HasFree(st)
    /\ st' = Settle(push_front(st, v))
    /\ ref' = [ref EXCEPT !.items = <<v>> \o @]
    /\ last' = [NoCall EXCEPT !.op = "push_front", !.v = v, !.len0 = len(st)]
    /\ UNCHANGED <<st2, hist>>

PushBack(v) ==
    /\ HasFree(st)
    /\ st' = Settle(push_back(st, v))
    /\ ref' = [ref EXCEPT !.items = Append(@, v)]
    /\ last' = [NoCall EXCEPT !.op = "push_back", !.v = v, !.len0 = len(st)]
    /\ UNCHANGED <<st2, hist>>

PopFront ==
    LET r == pop_front(st)
        n == Len(ref.items)
    IN  /\ st' = Settle(r.s)
        /\ ref' = [ref EXCEPT !.items = IF n = 0 THEN @ ELSE Tail(@)]
        /\ last' = [NoCall EXCEPT !.op = "pop_front", !.out = r.ret, !.len0 = len(st),
                        !.refout = IF n = 0 THEN Null ELSE ref.items[1]]
        /\ UNCHANGED <<st2, hist>>

PopBack ==
    LET r == pop_back(st)
        n == Len(ref.items)
    IN  /\ st' = Settle(r.s)
        /\ ref' = [ref EXCEPT !.items = IF n = 0 THEN @ ELSE SubSeq(@, 1, n - 1)]
        /\ last' = [NoCall EXCEPT !.op = "pop_back", !.out = r.ret, !.len0 = len(st),
                        !.refout = IF n = 0 THEN Null ELSE ref.items[n]]
        /\ UNCHANGED <<st2, hist>>

DequeNext ==
    \/ \E v \in Values : PushFront(v)
    \/ \E v \in Values : PushBack(v)
    \/ PopFront
    \/ PopBack

SpecDeque == DequeInit /\ [][DequeNext]_vars

----------------------------------------------------------------------------
(* One ListIterator over a list that is built first and not modified after *)
(* iter() was called.                                                      *)

Build(v, front) ==
    /\ ~hist.on
    /\ HasFree(st)
    /\ st' = Settle(IF front THEN push_front(st, v) ELSE push_back(st, v))
    /\ UNCHANGED <<st2, ref, last, hist>>

IterStart ==
    /\ ~hist.on
    /\ st' = [st EXCEPT !.iter = iter(st)]
    /\ hist' = [hist EXCEPT !.on = TRUE]
    /\ UNCHANGED <<st2, ref, last>>

IterNext ==
    LET r == iter_next(st)
    IN  /\ hist.on
        /\ st' = Settle(r.s)
        /\ last' = [NoCall EXCEPT !.op = "next", !.out = r.ret]
        /\ hist' = [hist EXCEPT !.fwd = IF r.node = Null THEN @ ELSE Append(@, r.node),
                                !.fnone = @ \/ r.node = Null,
                                !.turn = IF @ = "f" THEN "b" ELSE "x"]
        /\ UNCHANGED <<st2, ref>>

IterNextBack ==
    LET r == iter_next_back(st)
    IN  /\ hist.on
        /\ st' = Settle(r.s)
        /\ last' = [NoCall EXCEPT !.op = "next_back", !.out = r.ret]
        /\ hist' = [hist EXCEPT !.bwd = IF r.node = Null THEN @ ELSE Append(@, r.node),
                                !.bnone = @ \/ r.node = Null,
                                !.turn = IF @ = "b" THEN "f" ELSE "x"]
        /\ UNCHANGED <<st2, ref>>

IterNextStep ==
    \/ \E v \in Values, front \in BOOLEAN : Build(v, front)
    \/ IterStart
    \/ IterNext
    \/ IterNextBack

SpecIter == DequeInit /\ [][IterNextStep]_vars

----------------------------------------------------------------------------
(* Claims about the cache *)

KeyOf(s, n) ==
    IF \E k \in DOMAIN s.map : s.map[k] = n
    THEN CHOOSE k \in DOMAIN s.map : s.map[k] = n
    ELSE 0

(* The keys of the list's nodes, front to back. *)
KeyList(s) == LET f == FwdNodes(s) IN [i \in 1..Len(f) |-> KeyOf(s, f[i])]

RefKeys(r) == [i \in 1..Len(r.items) |-> r.items[i][1]]

RefValues(r) == [i \in 1..Len(r.items) |-> r.items[i][2]]

(* C1: every get returns what a reference LRU map of the same capacity     *)
(* returns: the value of the most recent put of the key if the key is      *)
(* among the capacity most recently used distinct keys, none otherwise.    *)
C1_GetRefinesReference ==
    last.op = "get" => last.out = last.refout

(* A get that hits while another key's node has been evicted. *)
C1_Witness ==
    /\ last.op = "get" /\ last.out # Null
    /\ Tombstones(st) # {}
    /\ st.count >= 2

(* C2: iterating the list from back to front yields the values of exactly  *)
(* the live keys, from most to least recently used.                        *)
C2_BackToFrontIsRecency ==
    LET b == BackNodes(st)
        keys == Reverse(RefKeys(ref))
    IN  /\ ValuesOf(st, b) = Reverse(RefValues(ref))
        /\ \A i \in 1..Len(b) : Upgrade(st, st.map[keys[i]]) = b[i]
        /\ HitKeys(st) = Range(RefKeys(ref))

(* Capacity 3, puts of keys 1..4 (evicting 1), then get(2), get(3): the    *)
(* order back to front is 3, 2, 4.                                         *)
C2_Witness ==
    /\ ref.cap = 3
    /\ last.op = "get" /\ last.hit
    /\ 1 \in Tombstones(st)
    /\ [i \in 1..Len(BackNodes(st)) |-> KeyOf(st, BackNodes(st)[i])] = <<3, 2, 4>>

(* C3: after every call the list length is at most the capacity and equals *)
(* the number of keys on which get would hit.                              *)
C3_LenBoundedAndExact ==
    /\ len(st) <= st.capacity
    /\ len(st) = Cardinality(HitKeys(st))
    /\ len(st) = Len(FwdNodes(st))

C3_Witness ==
    /\ last.op = "put" /\ ~last.hit
    /\ last.len0 = st.capacity /\ len(st) = st.capacity
    /\ st.capacity >= 2

(* What one call may do to the keys in the list: see C4. *)
C4_Step ==
    LET k == last'.k
        before == KeyList(st)
        after == KeyList(st')
    IN  IF last'.op = "get" \/ ~PutAllocates(st, k)
        THEN Range(after) = Range(before)
        ELSE IF len(st) + 1 <= st.capacity
        THEN after = Append(before, k)
        ELSE /\ after = Tail(Append(before, k))
             /\ Upgrade(st', st'.map[Append(before, k)[1]]) = Null

(* C4: a put evicts exactly the front node when the key did not resolve to *)
(* a live node and the push made the length exceed the capacity, and it    *)
(* evicts nothing otherwise; a get never evicts.                           *)
C4_EvictsAtMostTheFront == [][C4_Step]_vars

(* A put of a new key into a full cache of at least two. *)
C4_Witness ==
    /\ last.op = "put" /\ ~last.hit
    /\ last.len0 = st.capacity /\ len(st) = last.len0
    /\ st.capacity >= 2
    /\ Cardinality(Tombstones(st)) >= 2

(* What a call on key k does right after a put of k: see C5. *)
C5_Step ==
    LET k == last'.k
    IN  st.capacity >= 1 /\ last.op = "put" /\ last.k = k =>
          /\ last'.op = "put" =>
                /\ len(st') = len(st)
                /\ HitKeys(st') = HitKeys(st)
                /\ \A j \in HitKeys(st) \ {k} : get(st', j).ret = get(st, j).ret
          /\ last'.op = "get" => last'.out = last.v

(* C5: with capacity >= 1, a put of k right after a put of k leaves the    *)
(* length, the live keys and every other key's value unchanged, and a get  *)
(* of k right after a put(k, v) returns v; so put(k, v1), put(k, v2),      *)
(* get(k) returns v2.                                                      *)
C5_OverwriteInPlace == [][C5_Step]_vars

(* put(1, 1); put(1, 2); get(1) has run in a cache holding another key. *)
C5_Witness ==
    /\ last.scen = 3
    /\ last.out = 2
    /\ len(st) >= 2

C6_Step == last'.op = "get" /\ last'.out = Null => st' = st

(* C6: a get that misses returns none and leaves the whole cache state     *)
(* unchanged: heap (values and links), head, tail, count and index.        *)
C6_MissHasNoEffect == [][C6_Step]_vars

(* A get missed on a key whose node had been evicted. *)
C6_Witness ==
    /\ last.op = "get" /\ last.out = Null
    /\ last.k \in Tombstones(st)
    /\ len(st) >= 1

(* C7: built with capacity 0, every put leaves the list empty and every    *)
(* get returns none.                                                       *)
C7_ZeroCapacity ==
    ref.cap = 0 =>
        /\ st.head = Null /\ st.tail = Null /\ len(st) = 0
        /\ Allocated(st) = {}
        /\ last.op = "get" => last.out = Null

(* A get of a key that was put before, in a cache of capacity 0. *)
C7_Witness ==
    /\ ref.cap = 0
    /\ last.op = "get" /\ st.map[last.k] # Null

----------------------------------------------------------------------------
(* Claims about the constructors *)

(* C8: a cache from new() and a cache from with_capacity(10), driven by    *)
(* the same calls, return the same from every get and hold the same list   *)
(* contents in the same order after every call.                            *)
C8_NewIsCapacityTen ==
    /\ last.op = "get" => last.out = last.refout
    /\ ValuesOf(st, FwdNodes(st)) = ValuesOf(st2, FwdNodes(st2))
    /\ KeyList(st) = KeyList(st2)
    /\ len(st) = len(st2)

(* Both caches are full, have evicted, and the last get hit. *)
C8_Witness ==
    /\ last.op = "get" /\ last.out # Null
    /\ len(st) = 10 /\ len(st2) = 10
    /\ Tombstones(st) # {} /\ Tombstones(st2) # {}

----------------------------------------------------------------------------
(* Claims about the List *)

(* C9: under any interleaving of push_front, push_back, pop_front and      *)
(* pop_back the List behaves as a reference double-ended queue: each pop   *)
(* returns the value at its end of the reference sequence, or none when it *)
(* is empty, which leaves the list empty.                                  *)
C9_ListIsDeque ==
    /\ last.op \in {"pop_front", "pop_back"} => last.out = last.refout
    /\ ValuesOf(st, FwdNodes(st)) = ref.items
    /\ ValuesOf(st, BackNodes(st)) = Reverse(ref.items)
    /\ len(st) = Len(ref.items)
    /\ ref.items = << >> => st.head = Null /\ st.tail = Null /\ Allocated(st) = {}

(* A pop took one of at least three values, two different ones remain. *)
C9_Witness ==
    /\ last.op \in {"pop_front", "pop_back"} /\ last.out # Null
    /\ len(st) = 2
    /\ ref.items[1] # ref.items[2]

NoDup(q) == \A i, j \in 1..Len(q) : i # j => q[i] # q[j]

(* C10 as stated: alternating next and next_back calls never return an     *)
(* element from both directions, and once len() elements were returned     *)
(* both next and next_back return none.                                    *)
C10_OnceInTotal ==
    hist.on /\ hist.turn # "x" =>
        /\ Range(hist.fwd) \cap Range(hist.bwd) = {}
        /\ Len(hist.fwd) + Len(hist.bwd) >= len(st) =>
              iter_next(st).ret = Null /\ iter_next_back(st).ret = Null

(* C10 as amended: next returns every element once and next_back returns   *)
(* every element once, whatever the other direction has returned: neither  *)
(* returns an element twice or skips one, and each returns none exactly    *)
(* once it has itself returned len() elements.                             *)
C10_OncePerDirection ==
    hist.on =>
        /\ NoDup(hist.fwd) /\ NoDup(hist.bwd)
        /\ Range(hist.fwd) \cup Range(hist.bwd) \subseteq Range(FwdNodes(st))
        /\ iter_next(st).ret = Null <=> Len(hist.fwd) = len(st)
        /\ iter_next_back(st).ret = Null <=> Len(hist.bwd) = len(st)
        /\ hist.fnone => Range(hist.fwd) = Range(FwdNodes(st))
        /\ hist.bnone => Range(hist.bwd) = Range(FwdNodes(st))

(* The calls of tests::works_builds_list_iter: next and next_back in turn  *)
(* on a list of four, until both have returned none.                       *)
C10_Witness ==
    /\ hist.on /\ hist.turn # "x"
    /\ hist.fnone /\ hist.bnone
    /\ len(st) = 4
    /\ Len(hist.fwd) + Len(hist.bwd) = 8

(* The nodes of the list, from head along the owning next links. *)
Nodes(s) == Chain(s, s.head, Cardinality(Ids(s)))

IsPrefix(p, q) == Len(p) <= Len(q) /\ p = SubSeq(q, 1, Len(p))

PositionOf(s, node) == CHOOSE i \in 1..Len(Nodes(s)) : Nodes(s)[i] = node

SeqWithout(q, i) == SubSeq(q, 1, i - 1) \o SubSeq(q, i + 1, Len(q))

----------------------------------------------------------------------------
(* A List driven through its six operations and then dropped.  The caller  *)
(* reaches a node through get_weak_tail() and the public prev and next     *)
(* fields, holds the handle for the call and drops it afterwards.  ref     *)
(* keeps the values a sequence would hold.  remove_node lets count run     *)
(* ahead of the nodes, so the pushes stop at MaxCount.                     *)

Dropping == last.op \in {"drop", "dropped"}

ListPushFront(v) == ~Dropping /\ len(st) < MaxCount /\ PushFront(v)

ListPushBack(v) == ~Dropping /\ len(st) < MaxCount /\ PushBack(v)

ListPopFront == ~Dropping /\ PopFront

ListPopBack == ~Dropping /\ PopBack

ListRemoveNode(node) ==
    /\ ~Dropping
    /\ st' = Settle(remove_node(st, node))
    /\ ref' = [ref EXCEPT !.items = SeqWithout(@, PositionOf(st, node))]
    /\ last' = [NoCall EXCEPT !.op = "remove_node", !.k = PositionOf(st, node),
                    !.v = st.heap[node].value, !.len0 = len(st)]
    /\ UNCHANGED <<st2, hist>>

ListMoveNodeToBack(node) ==
    /\ ~Dropping
    /\ st' = Settle(move_node_to_back(st, node))
    /\ ref' = [ref EXCEPT !.items =
                  Append(SeqWithout(@, PositionOf(st, node)), @[PositionOf(st, node)])]
    /\ last' = [NoCall EXCEPT !.op = "move_node_to_back", !.k = PositionOf(st, node),
                    !.v = st.heap[node].value, !.len0 = len(st)]
    /\ UNCHANGED <<st2, hist>>

(* Drop for List: one turn of `while let Some(_) = self.pop_back() {}`.    *)
(* last.k is the number of nodes when the drop began, last.scen the number *)
(* of pop_back calls made so far.                                          *)
DropStep ==
    LET r == pop_back(st)
        began == last.op = "drop"
    IN  /\ last.op # "dropped"
        /\ st' = Settle(r.s)
        /\ ref' = [ref EXCEPT !.items = IF @ = << >> THEN @ ELSE SubSeq(@, 1, Len(@) - 1)]
        /\ last' = [NoCall EXCEPT
                        !.op = IF r.ret = Null THEN "dropped" ELSE "drop",
                        !.k = IF began THEN last.k ELSE Len(Nodes(st)),
                        !.len0 = IF began THEN last.len0 ELSE len(st),
                        !.out = r.ret,
                        !.scen = IF began THEN last.scen + 1 ELSE 1]
        /\ UNCHANGED <<st2, hist>>

ListNext ==
    \/ \E v \in Values : ListPushFront(v)
    \/ \E v \in Values : ListPushBack(v)
    \/ ListPopFront
    \/ ListPopBack
    \/ \E node \in Range(Nodes(st)) : ListRemoveNode(node)
    \/ \E node \in Range(Nodes(st)) : ListMoveNodeToBack(node)
    \/ DropStep

SpecList == DequeInit /\ [][ListNext]_vars

----------------------------------------------------------------------------
(* A cache driven by put and get, or a List driven through its own        *)
(* operations: the two ways the links of a List are changed.               *)

IsCache(s) == DOMAIN s.map # {}

LinksInit ==
    /\ \/ \E c \in 0..LinkCap :
             /\ st = with_capacity(LinkKeys + 1, LinkKeys, c)
             /\ ref = [cap |-> c, items |-> << >>]
       \/ /\ st = List_new(MaxLen)
          /\ ref = [cap |-> MaxLen, items |-> << >>]
    /\ st2 = Idle
    /\ last = NoCall
    /\ hist = NoHist

LinksNext ==
    \/ IsCache(st) /\ \E k \in DOMAIN st.map, v \in Values : Put(k, v)
    \/ IsCache(st) /\ \E k \in DOMAIN st.map : Get(k)
    \/ ~IsCache(st) /\ ListNext

SpecLinks == LinksInit /\ [][LinksNext]_vars

----------------------------------------------------------------------------
(* A cache whose caller takes an iterator of the public list field with   *)
(* cache.list.iter() and keeps it while calling put and get.  ListIterator *)
(* borrows nothing from the List, so the calls compile; it owns the nodes  *)
(* its two cursors stand on.  st is that cache, st2 a cache of the same    *)
(* capacity given the same calls with no iterator taken.                   *)

HeldInit ==
    /\ \E c \in 0..HeldCap :
          /\ st = with_capacity(HeldKeys + 3, HeldKeys, c)
          /\ st2 = with_capacity(HeldKeys + 1, HeldKeys, c)
          /\ ref = [cap |-> c, items |-> << >>]
    /\ last = NoCall
    /\ hist = NoHist

HeldIter ==
    /\ ~hist.on
    /\ st' = [st EXCEPT !.iter = iter(st)]
    /\ hist' = [hist EXCEPT !.on = TRUE]
    /\ UNCHANGED <<st2, ref, last>>

HeldPut(k, v) ==
    /\ PutAllocates(st, k) => HasFree(st)
    /\ PutAllocates(st2, k) => HasFree(st2)
    /\ st' = Settle(put(st, k, v))
    /\ st2' = Settle(put(st2, k, v))
    /\ last' = [NoCall EXCEPT !.op = "put", !.k = k, !.v = v,
                    !.hit = ~PutAllocates(st, k), !.len0 = len(st)]
    /\ UNCHANGED <<ref, hist>>

HeldGet(k) ==
    LET r == get(st, k)
        q == get(st2, k)
    IN  /\ st' = Settle(r.s)
        /\ st2' = Settle(q.s)
        /\ last' = [NoCall EXCEPT !.op = "get", !.k = k, !.out = r.ret,
                        !.refout = q.ret, !.hit = r.ret # Null, !.len0 = len(st)]
        /\ UNCHANGED <<ref, hist>>

HeldNext ==
    \/ HeldIter
    \/ \E k \in DOMAIN st.map, v \in Values : HeldPut(k, v)
    \/ \E k \in DOMAIN st.map : HeldGet(k)

SpecHeld == HeldInit /\ [][HeldNext]_vars

----------------------------------------------------------------------------
(* C11: on one iterator over an unmodified list of n elements the two      *)
(* cursors are independent: whatever the interleaving, the next() calls    *)
(* return the n values front to back and then none, and the next_back()    *)
(* calls return the n values back to front and then none.                  *)
C11_CursorsIndependent ==
    hist.on =>
        /\ IsPrefix(hist.fwd, Nodes(st))
        /\ IsPrefix(hist.bwd, Reverse(Nodes(st)))
        /\ hist.fnone => hist.fwd = Nodes(st)
        /\ hist.bnone => hist.bwd = Reverse(Nodes(st))
        /\ last.op = "next" /\ last.out # Null =>
              last.out = st.heap[Nodes(st)[Len(hist.fwd)]].value
        /\ last.op = "next_back" /\ last.out # Null =>
              last.out = st.heap[Reverse(Nodes(st))[Len(hist.bwd)]].value
        /\ last.op = "next" /\ last.out = Null => Len(hist.fwd) = len(st)
        /\ last.op = "next_back" /\ last.out = Null => Len(hist.bwd) = len(st)

(* Both directions have run through a list of four and returned none, in   *)
(* an interleaving that does not alternate.                                *)
C11_Witness ==
    /\ hist.on /\ hist.turn = "x"
    /\ hist.fnone /\ hist.bnone
    /\ Len(hist.fwd) = 4 /\ Len(hist.bwd) = 4
    /\ st.heap[1].value # st.heap[4].value

(* C12: after any sequence of push_front, push_back, pop_front, pop_back,   *)
(* remove_node on a node of the list and move_node_to_back, len() is the   *)
(* number of nodes reachable forward from head, and len() is 0 exactly     *)
(* when head and tail are both absent.                                     *)
C12_LenCountsNodes ==
    ~Dropping =>
        /\ len(st) = Len(Nodes(st))
        /\ len(st) = 0 <=> (st.head = Null /\ st.tail = Null)

(* C13: after every List operation and every cache put and get the links   *)
(* are consistent: following next from head visits every node and ends at  *)
(* tail, tail has no next, head has no prev, the prev of every node's      *)
(* successor resolves to that node, and the backward traversal from tail   *)
(* is the reverse of the forward traversal.                                *)
C13_LinksConsistent ==
    LET ns == Nodes(st)
        n == Len(ns)
    IN  /\ Range(ns) = Allocated(st)
        /\ NoDup(ns)
        /\ n = 0 => st.head = Null /\ st.tail = Null
        /\ n > 0 => /\ ns[n] = st.tail
                    /\ st.heap[st.tail].next = Null
                    /\ st.heap[st.head].prev = Null
        /\ \A i \in 1..(n - 1) : Upgrade(st, st.heap[ns[i + 1]].prev) = ns[i]
        /\ FwdNodes(st) = ns
        /\ BackNodes(st) = Reverse(ns)

(* A get has just left its node at the back of a cache list of three.      *)
C13_Witness ==
    /\ IsCache(st)
    /\ last.op = "get" /\ last.hit
    /\ Len(Nodes(st)) = 3
    /\ last.k = KeyOf(st, st.tail)
    /\ RefKeys(ref)[3] = last.k

(* C14: remove_node(h), for h at any of the four positions (sole node,     *)
(* head, tail, inside), leaves the forward sequence equal to the previous  *)
(* one with h deleted and the others in unchanged order, moves head or     *)
(* tail when h was at an end (both absent when h was the sole node), and   *)
(* leaves h with next and prev cleared.                                    *)
C14_RemoveNodeUnlinks ==
    /\ \A h \in Range(Nodes(st)) :
          LET t == remove_node(st, h)
              rest == SeqWithout(Nodes(st), PositionOf(st, h))
          IN  /\ Nodes(t) = rest
              /\ BackNodes(t) = Reverse(rest)
              /\ ValuesOf(t, rest) = ValuesOf(st, rest)
              /\ t.head = IF rest = << >> THEN Null ELSE rest[1]
              /\ t.tail = IF rest = << >> THEN Null ELSE rest[Len(rest)]
              /\ t.heap[h].next = Null
              /\ t.heap[h].prev = Null
              /\ t.heap[h].alloc
    /\ last.op = "remove_node" => ValuesOf(st, Nodes(st)) = ref.items

(* remove_node has just taken the second node out of a list of four. *)
C14_Witness ==
    /\ last.op = "remove_node"
    /\ last.k = 2
    /\ Len(Nodes(st)) = 3
    /\ ref.items = ValuesOf(st, Nodes(st))

(* C15: move_node_to_back(h), for h at any position, ends with the same    *)
(* node h as tail, the other nodes in unchanged relative order and len()   *)
(* unchanged; h is never freed in between, and every non-owning handle     *)
(* that resolved to h or to another node still resolves to the same node.  *)
C15_MoveKeepsIdentity ==
    \A h \in Range(Nodes(st)) :
        LET mid == remove_node(st, h)
            t == Release(move_node_to_back(st, h))
            rest == SeqWithout(Nodes(st), PositionOf(st, h))
        IN  /\ t.tail = h
            /\ Nodes(t) = Append(rest, h)
            /\ BackNodes(t) = Reverse(Append(rest, h))
            /\ len(t) = len(st)
            /\ mid.heap[h].alloc
            /\ \A n \in Allocated(st) \ {h} : StrongCount(mid, n) >= 1
            /\ Allocated(t) = Allocated(st)
            /\ \A n \in Allocated(st) : t.heap[n].value = st.heap[n].value
            /\ t.map = st.map
            /\ \A k \in DOMAIN st.map : Upgrade(t, t.map[k]) = Upgrade(st, st.map[k])

(* move_node_to_back has just taken the second node of a list of four to   *)
(* the back.                                                               *)
C15_Witness ==
    /\ last.op = "move_node_to_back"
    /\ last.k = 2
    /\ Len(Nodes(st)) = 4
    /\ st.heap[st.tail].value = last.v
    /\ ref.items = ValuesOf(st, Nodes(st))

(* C16: between operations, with no iterator and no caller-held handle     *)
(* alive, every list node has exactly one owning reference (head or its    *)
(* predecessor's next), except the tail node, which has exactly two (tail  *)
(* plus head when the length is 1, tail plus its predecessor's next        *)
(* otherwise), and there is no owning cycle; so a node popped by pop_front *)
(* or pop_back or evicted by put is freed when the call returns and every  *)
(* non-owning handle to it stops resolving.                                *)
C16_OwnersCounted ==
    LET ns == Nodes(st)
        n == Len(ns)
    IN  /\ \A c \in Allocated(st) :
              StrongCount(st, c) = IF c = st.tail THEN 2 ELSE 1
        /\ n = 1 => st.head = st.tail
        /\ n > 1 => st.head # st.tail /\ st.heap[ns[n - 1]].next = st.tail
        /\ NoDup(ns)
        /\ \A c \in Range(ns) : st.heap[c].alloc
        /\ Cardinality(Allocated(st)) = Len(ref.items)
        /\ IsCache(st) =>
              {k \in DOMAIN st.map : Upgrade(st, st.map[k]) # Null} = Range(RefKeys(ref))

(* A put has just evicted the front node of a full cache of capacity two   *)
(* or more: its index entry is still there and no longer resolves.         *)
C16_Witness ==
    /\ IsCache(st)
    /\ last.op = "put" /\ ~last.hit
    /\ last.len0 = st.capacity /\ st.capacity >= 2
    /\ Len(Nodes(st)) = st.capacity
    /\ Tombstones(st) # {}

(* The keys that have an entry in the index, and those whose entry        *)
(* resolves.                                                               *)
IndexKeys(s) == {k \in DOMAIN s.map : s.map[k] # Null}

LiveKeys(s) == {k \in DOMAIN s.map : Upgrade(s, s.map[k]) # Null}

(* C17: after any sequence of put and get the index entries that resolve   *)
(* are in one-to-one correspondence with the list nodes: every list node   *)
(* is the target of exactly one key's entry, every resolving entry targets *)
(* a node of the list, and the node's value is the value of the most       *)
(* recent put of that key.                                                 *)
C17_IndexMatchesList ==
    LET ns == Range(Nodes(st))
    IN  /\ \A c \in ns : Cardinality({k \in DOMAIN st.map : st.map[k] = c}) = 1
        /\ \A k \in LiveKeys(st) : st.map[k] \in ns
        /\ Cardinality(LiveKeys(st)) = Cardinality(ns)
        /\ \A i \in 1..Len(ref.items) :
              /\ ref.items[i][1] \in LiveKeys(st)
              /\ st.heap[st.map[ref.items[i][1]]].value = ref.items[i][2]

(* A put has just overwritten the value of a key in a cache that holds     *)
(* three keys and has evicted another.                                     *)
C17_Witness ==
    /\ last.op = "put" /\ last.hit
    /\ Cardinality(LiveKeys(st)) = 3
    /\ Tombstones(st) # {}
    /\ st.heap[st.map[last.k]].value = last.v
    /\ \E k \in LiveKeys(st) : st.heap[st.map[k]].value # last.v

(* C18: no put and no get removes an index entry: the index holds exactly  *)
(* the distinct keys ever put, its size never decreases, and it grows past *)
(* the capacity, the excess entries being ones that no longer resolve.     *)
C18_IndexOnlyGrows ==
    /\ IndexKeys(st) = {}
    /\ [][/\ last'.op = "put" => IndexKeys(st') = IndexKeys(st) \cup {last'.k}
          /\ last'.op = "get" => IndexKeys(st') = IndexKeys(st)
          /\ Cardinality(IndexKeys(st')) >= Cardinality(IndexKeys(st))]_vars
    /\ [](/\ Cardinality(LiveKeys(st)) <= st.capacity
          /\ IndexKeys(st) \ LiveKeys(st) = Tombstones(st))

(* The index holds more keys than the capacity of a cache that is full. *)
C18_Witness ==
    /\ st.capacity >= 1
    /\ Cardinality(LiveKeys(st)) = st.capacity
    /\ Cardinality(IndexKeys(st)) > st.capacity + 1
    /\ last.op = "get" /\ ~last.hit /\ last.k \in Tombstones(st)

(* C19: dropping a List in any state the six operations reach terminates:  *)
(* the drain loop calls pop_back once per remaining node plus one final    *)
(* call that returns none, never takes the count below zero, and ends with *)
(* head and tail absent and every node freed.                              *)
C19_DropDrains ==
    /\ last.op = "drop" =>
          /\ last.out # Null
          /\ last.scen <= last.k
          /\ Len(Nodes(st)) = last.k - last.scen
          /\ len(st) = last.len0 - last.scen
          /\ len(st) >= 0
    /\ last.op = "dropped" =>
          /\ last.out = Null
          /\ last.scen = last.k + 1
          /\ st.head = Null /\ st.tail = Null
          /\ Allocated(st) = {}
          /\ len(st) = last.len0 - last.k
          /\ len(st) >= 0

(* The drop of a list of four nodes, whose count remove_node had left      *)
(* above four, has finished.                                               *)
C19_Witness ==
    /\ last.op = "dropped"
    /\ last.k = 4
    /\ last.len0 > 4
    /\ last.scen = 5

(* C20: holding an iterator taken from the cache's list.iter() does not    *)
(* change the cache's behaviour: for any put and get calls made while it   *)
(* is held, every get result and the resulting list contents, order and    *)
(* link consistency are those of the same calls with no iterator held; a   *)
(* key evicted by a put misses on the next get, and no get removes other   *)
(* entries from the list.                                                  *)
C20_HeldIteratorIsInert ==
    /\ last.op = "get" => last.out = last.refout
    /\ KeyList(st) = KeyList(st2)
    /\ ValuesOf(st, FwdNodes(st)) = ValuesOf(st2, FwdNodes(st2))
    /\ len(st) = Len(Nodes(st))
    /\ BackNodes(st) = Reverse(Nodes(st))
    /\ Nodes(st) # << >> => st.heap[st.head].prev = Null

----------------------------------------------------------------------------
(* The memory bound never stops a call *)

CellsSuffice ==
    /\ \A k \in DOMAIN st.map : PutAllocates(st, k) => HasFree(st)
    /\ \A k \in DOMAIN st2.map : PutAllocates(st2, k) => HasFree(st2)

====
